---- MODULE Spec2Model ----
(***************************************************************************)
(* Callout Organizer: the cache consistency engine (modules/cache.ts), the *)
(* callout parser's scan and time resolution (callout-parser.ts), the id  *)
(* write-back (main plugin), the relationship graph builder               *)
(* (canvas-handler.ts), the regex-scan loops (color-manager.ts) and the    *)
(* view's drag handler (utils.ts).                                         *)
(*                                                                         *)
(* Document paths are numbers; vault.getMarkdownFiles() enumerates the     *)
(* existing documents in ascending path order.  A millisecond timestamp is *)
(* a natural number; a readable timestamp "YYYY-MM-DD HH:mm:ss" is the     *)
(* number of whole seconds it names.                                       *)
(***************************************************************************)
EXTENDS Integers, Sequences, FiniteSets, TLC

VARIABLES
    \* ---- cache validity (sequential use of CacheManager) ----
    cvVault,          \* document path -> [exists, mtime]
    cvCached,         \* TRUE once a cache has been saved
    cvFileModTimes,   \* cache.fileModTimes of the saved cache
    cvTouched,        \* documents edited, created or deleted since the save
    cvQueue,          \* incrementalUpdateQueue (paths)
    cvTimer,          \* incrementalUpdateTimer pending
    cvCall,           \* the last isCacheValid call: inputs and result
    \* ---- the cache engine with its asynchronous operations ----
    vault,            \* document path -> [exists, mtime, body]
    activeFile,       \* workspace.getActiveFile(): a path, or 0
    now,              \* Date.now()
    edits,            \* number of user edits so far
    cacheFile,        \* the persisted cache file
    cacheOperationLock,       \* 0 (null) or the task whose saveOperation() it is
    incrementalUpdateQueue,   \* paths queued for incremental update
    incrementalUpdateTimer,   \* TRUE while the debounce timer is pending
    started,          \* number of operations the user started so far
    tasks,            \* task slot -> the asynchronous operation running in it
    \* ---- the id write-back (openCalloutCanvas, the drag handler) ----
    idDocs,           \* document path -> [exists, matches, textId, writeFails]
    idRecs,           \* document path -> calloutID of its in-memory record, or 0
    idHandlers,       \* document path -> the handler running for its record
    idGraph,          \* the focal node of the last graph built from the view
    \* ---- the relationship graph builder ----
    gOutlinks,        \* <<from, to>> pairs: the outlinks of the indexed callouts
    gCanvasFiles,     \* focal callout -> its exported canvas file
    gLast,            \* the focal callout of the last graph built, or 0
    layIn,            \* layout input: focal size and numbers of neighbours
    layOut,           \* the nodes the layout placed
    \* ---- the callout parser on one document ----
    pLines,           \* the document's lines
    pRecords,         \* the records extractCalloutsFromFile returned
    pDone,            \* TRUE once the document has been parsed
    tDoc,             \* the re-parsed document: [mtime, body, hasID]
    tNow,             \* Date.now() of the re-parse model
    tParses,          \* the parses of the document so far, oldest first
    \* ---- loadCalloutCache on one cache file ----
    lFile,            \* what the adapter finds at the cache file path
    lResult,          \* what loadCalloutCache did: "none" before the call
    \* ---- the regex-scan loops over one document's text ----
    sScan,            \* the loop: which one, matches left, iterations, collected
    \* ---- the view's drag handler and the cache it saves ----
    wView,            \* the view: mode, active document, this.callouts, drag
    wCache,           \* documents whose records the persisted cache holds
    \* ---- the graph builder on outlink lists ----
    eOutlinks,        \* callout -> the list of its outlink targets
    eCanvas           \* the canvas built last: focal, nodes and edges

cvVars == <<cvVault, cvCached, cvFileModTimes, cvTouched, cvQueue, cvTimer, cvCall>>

engineVars == <<vault, activeFile, now, edits, cacheFile, cacheOperationLock,
                incrementalUpdateQueue, incrementalUpdateTimer, started, tasks>>

idVars == <<idDocs, idRecs, idHandlers, idGraph>>

graphVars == <<gOutlinks, gCanvasFiles, gLast, layIn, layOut>>

parserVars == <<pLines, pRecords, pDone, tDoc, tNow, tParses>>

loadVars == <<lFile, lResult>>

scanVars == <<sScan>>

viewVars == <<wView, wCache>>

edgeVars == <<eOutlinks, eCanvas>>

vars == <<cvVars, engineVars, idVars, graphVars, parserVars, loadVars,
          scanVars, viewVars, edgeVars>>

(***************************************************************************)
(* Bounds                                                                  *)
(***************************************************************************)
NDocs == 7                       \* documents of the validity model
Doc == 1..NDocs
NFiles == 3                      \* documents of the engine model
NTasks == 2                      \* operations in flight at once
MaxEdits == 2                    \* user edits and deletions in one behaviour
MaxTicks == 1                    \* clock ticks in one behaviour
MaxOps == 3                      \* operations the user starts in one behaviour
NIdDocs == 2                     \* documents of the id write-back model
NGenIds == 2                     \* ids generateCalloutId can return
NCallouts == 3                   \* indexed callouts of the graph model
MaxLinks == 3                    \* outlinks written in one behaviour
MaxDrawn == 2                    \* edges drawn by hand in canvas files
MaxLines == 4                    \* lines of the parsed document
MaxLevel == 3                    \* heading levels used in the parsed document
MaxClock == 3                    \* half-second clock ticks of the re-parse model
MaxNeighbours == 5               \* neighbours of one class in the layout model

(***************************************************************************)
(* Program constants                                                       *)
(***************************************************************************)
MsPerSecond == 1000              \* the readable format ends at seconds
QueueLimit == 10                 \* incrementalUpdateQueue.size > 10
ModifiedLimit == 5               \* modifiedFiles.length <= 5
NewFileLimit == 3                \* newFileCount <= 3

(***************************************************************************)
(* utils.ts: time formatting                                               *)
(***************************************************************************)
timestampToReadable(ts) == ts \div MsPerSecond

readableToTimestamp(readable) == readable * MsPerSecond

(***************************************************************************)
(* Helpers on sequences and sets                                           *)
(***************************************************************************)
RECURSIVE SeqOfSet(_)
SeqOfSet(S) ==
    IF S = {} THEN <<>>
    ELSE LET m == CHOOSE x \in S : \A y \in S : x <= y
         IN <<m>> \o SeqOfSet(S \ {m})

SetOfSeq(s) == {s[i] : i \in 1..Len(s)}

Prefix(s, n) == IF Len(s) <= n THEN s ELSE SubSeq(s, 1, n)

\* vault.getMarkdownFiles(): the existing documents, in enumeration order
getMarkdownFiles(v) == SeqOfSet({f \in DOMAIN v : v[f].exists})

(***************************************************************************)
(* callout-parser.ts: shouldSkipFile(path, searchMode = true).  The        *)
(* excluded folder holds the document with the highest path.               *)
(***************************************************************************)
ExcludedIn(paths) == {f \in paths : \A g \in paths : g <= f}

shouldSkipFile(f, paths) == f \in ExcludedIn(paths)

(***************************************************************************)
(* cache.ts: saveCalloutCache, the fileModTimes it collects                *)
(***************************************************************************)
CollectFileModTimes(v) ==
    LET kept == {f \in DOMAIN v : v[f].exists /\ ~shouldSkipFile(f, DOMAIN v)}
    IN [f \in kept |-> timestampToReadable(v[f].mtime)]

(***************************************************************************)
(* cache.ts: isCacheValid.  The result, the queue afterwards, and whether  *)
(* queueIncrementalUpdate ran (which re-arms the debounce timer).          *)
(***************************************************************************)
ModifiedFiles(fmt, v) ==
    {f \in DOMAIN fmt : v[f].exists /\ v[f].mtime > readableToTimestamp(fmt[f])}

NewFiles(fmt, v) ==
    SelectSeq(getMarkdownFiles(v),
              LAMBDA f : ~shouldSkipFile(f, DOMAIN v) /\ f \notin DOMAIN fmt)

\* mutant of TooManyModified: the threshold is off by one
TooManyModified_OffByOne(n) == n >= ModifiedLimit

TooManyModified(n) == n > ModifiedLimit

FewModified(n) == n > 0 /\ ~TooManyModified(n)

isCacheValid(fmt, v, q) ==
    LET modified == ModifiedFiles(fmt, v)
        newFiles == NewFiles(fmt, v)
    IN IF Cardinality(q) > QueueLimit
         THEN [ok |-> FALSE, queue |-> q, queued |-> FALSE]
       ELSE IF \E f \in DOMAIN fmt : ~v[f].exists
         THEN [ok |-> FALSE, queue |-> q, queued |-> FALSE]
       ELSE IF FewModified(Cardinality(modified))
         THEN [ok |-> TRUE, queue |-> q \cup modified, queued |-> TRUE]
       ELSE IF TooManyModified(Cardinality(modified))
         THEN [ok |-> FALSE, queue |-> q, queued |-> FALSE]
       ELSE IF Len(newFiles) > NewFileLimit
         THEN [ok |-> FALSE,
               queue |-> q \cup SetOfSeq(Prefix(newFiles, NewFileLimit)),
               queued |-> TRUE]
       ELSE [ok |-> TRUE, queue |-> q \cup SetOfSeq(newFiles),
             queued |-> newFiles # <<>>]

(***************************************************************************)
(* The validity model: documents, one saveCalloutCache, edits, and one     *)
(* isCacheValid call on the loaded cache.                                  *)
(***************************************************************************)
EarlyTimes == {MsPerSecond, MsPerSecond + MsPerSecond \div 2}
LateTime == 2 * MsPerSecond

\* paths queued earlier whose documents are gone since
StalePaths == (NDocs + 1)..(NDocs + QueueLimit + 1)

NoCall == [made |-> FALSE]

\* the id write-back variables are not used by the cache models
IdIdle == idDocs = << >> /\ idRecs = << >> /\ idHandlers = << >> /\ idGraph = << >>

\* the loader variables are used by the loader model only
LoadIdle == lFile = << >> /\ lResult = "none"

\* the scan loop variable is used by the scan loop model only
ScanIdle == sScan = << >>

\* the view variables are used by the drag handler model only
ViewIdle == wView = << >> /\ wCache = {}

\* the outlink lists are used by the graph edge model only
EdgeIdle == eOutlinks = << >> /\ eCanvas = << >>

\* the parser variables are used by the parser model only
ParserIdle == /\ pLines = << >> /\ pRecords = << >> /\ pDone = FALSE
              /\ tDoc = << >> /\ tNow = 0 /\ tParses = << >>

\* the graph builder variables are not used by the cache models
GraphIdle == /\ gOutlinks = {} /\ gCanvasFiles = << >> /\ gLast = 0
             /\ layIn = << >> /\ layOut = << >>

\* the engine's state is not used by the validity model
EngineIdle ==
    /\ vault = << >> /\ activeFile = 0 /\ now = 0 /\ edits = 0
    /\ cacheFile = << >> /\ cacheOperationLock = 0
    /\ incrementalUpdateQueue = {} /\ incrementalUpdateTimer = FALSE
    /\ started = 0 /\ tasks = << >>

CvInit ==
    /\ cvVault \in [Doc -> [exists : {TRUE}, mtime : EarlyTimes]
                           \cup {[exists |-> FALSE, mtime |-> 0]}]
    /\ cvCached = FALSE
    /\ cvFileModTimes = << >>
    /\ cvTouched = {}
    /\ cvQueue \in {{}, StalePaths}
    /\ cvTimer = (cvQueue # {})
    /\ cvCall = NoCall
    /\ EngineIdle
    /\ IdIdle
    /\ GraphIdle
    /\ ParserIdle
    /\ LoadIdle
    /\ ScanIdle
    /\ ViewIdle
    /\ EdgeIdle

\* saveCalloutCache(callouts, shouldSkipFile) run to completion
CvSave ==
    /\ ~cvCached
    /\ cvCached' = TRUE
    /\ cvFileModTimes' = CollectFileModTimes(cvVault)
    /\ cvTouched' = {}
    /\ UNCHANGED <<cvVault, cvQueue, cvTimer, cvCall, engineVars, idVars, graphVars, parserVars, loadVars,
                   scanVars, viewVars, edgeVars>>

\* Edits of different documents commute: they are taken in ascending path order.
CvEditable(f) == cvCached /\ ~cvCall.made /\ \A g \in cvTouched : g < f

\* the user edits a document
CvModify(f) ==
    /\ CvEditable(f)
    /\ cvVault[f].exists /\ cvVault[f].mtime < LateTime
    /\ cvVault' = [cvVault EXCEPT ![f].mtime = LateTime]
    /\ cvTouched' = cvTouched \cup {f}
    /\ UNCHANGED <<cvCached, cvFileModTimes, cvQueue, cvTimer, cvCall, engineVars, idVars, graphVars, parserVars, loadVars,
                   scanVars, viewVars, edgeVars>>

\* the user deletes a document
CvDelete(f) ==
    /\ CvEditable(f)
    /\ cvVault[f].exists
    /\ \A g \in DOMAIN cvFileModTimes : cvVault[g].exists
    /\ cvVault' = [cvVault EXCEPT ![f] = [exists |-> FALSE, mtime |-> 0]]
    /\ cvTouched' = cvTouched \cup {f}
    /\ UNCHANGED <<cvCached, cvFileModTimes, cvQueue, cvTimer, cvCall, engineVars, idVars, graphVars, parserVars, loadVars,
                   scanVars, viewVars, edgeVars>>

\* the user creates a document
CvCreate(f) ==
    /\ CvEditable(f)
    /\ ~cvVault[f].exists /\ f \notin DOMAIN cvFileModTimes
    /\ cvVault' = [cvVault EXCEPT ![f] = [exists |-> TRUE, mtime |-> LateTime]]
    /\ cvTouched' = cvTouched \cup {f}
    /\ UNCHANGED <<cvCached, cvFileModTimes, cvQueue, cvTimer, cvCall, engineVars, idVars, graphVars, parserVars, loadVars,
                   scanVars, viewVars, edgeVars>>

\* isCacheValid(cache, shouldSkipFile) on the loaded cache
CvIsCacheValid ==
    /\ cvCached /\ ~cvCall.made
    /\ LET r == isCacheValid(cvFileModTimes, cvVault, cvQueue)
       IN /\ cvQueue' = r.queue
          /\ cvTimer' = (cvTimer \/ r.queued)
          /\ cvCall' = [made |-> TRUE, ok |-> r.ok, queueBefore |-> cvQueue,
                        timerBefore |-> cvTimer]
    /\ UNCHANGED <<cvVault, cvCached, cvFileModTimes, cvTouched, engineVars, idVars, graphVars, parserVars, loadVars,
                   scanVars, viewVars, edgeVars>>

CvNext ==
    \/ CvSave
    \/ \E f \in Doc : CvModify(f)
    \/ \E f \in Doc : CvDelete(f)
    \/ \E f \in Doc : CvCreate(f)
    \/ CvIsCacheValid

SpecValid == CvInit /\ [][CvNext]_vars

(***************************************************************************)
(* Claims on cache validity (checked under SpecValid)                      *)
(***************************************************************************)
\* cached documents that exist and were not edited since the cache was saved
CvUnchanged == {f \in DOMAIN cvFileModTimes : cvVault[f].exists /\ f \notin cvTouched}

\* cached documents whose mtime is newer than the cached readable time
CvNewer == {f \in DOMAIN cvFileModTimes :
                cvVault[f].exists /\ cvVault[f].mtime > cvFileModTimes[f] * MsPerSecond}

\* non-excluded existing documents with no entry in fileModTimes
CvNew == {f \in Doc : cvVault[f].exists /\ ~shouldSkipFile(f, Doc)
                        /\ f \notin DOMAIN cvFileModTimes}

\* C4: a document not modified since its mtime was stored by saveCalloutCache
\* is classified Unchanged by isCacheValid: not counted as modified and not
\* queued, whatever its millisecond mtime.
C4_UnmodifiedIsUnchanged ==
    cvCall.made =>
        \A f \in CvUnchanged :
            /\ f \notin ModifiedFiles(cvFileModTimes, cvVault)
            /\ (f \in cvQueue => f \in cvCall.queueBefore)

\* C5: isCacheValid returns false whenever more than 3 non-excluded documents
\* have no entry in fileModTimes, whatever the number of modified documents.
\* (Stated for calls in which every document counted as modified was edited.)
C5_TooManyNewIsInvalid ==
    (/\ cvCall.made
     /\ Cardinality(CvNew) > NewFileLimit
     /\ CvNewer \subseteq cvTouched) => ~cvCall.ok

\* C6: with no cached document deleted and at most 10 documents queued, k
\* documents newer than their cached time: 1 <= k <= 5 gives true and the
\* queue gains exactly those k; k >= 6 gives false.
C6_ModifiedThreshold ==
    (/\ cvCall.made
     /\ \A f \in DOMAIN cvFileModTimes : cvVault[f].exists
     /\ Cardinality(cvCall.queueBefore) <= QueueLimit)
    => LET k == Cardinality(CvNewer)
       IN /\ (1 <= k /\ k <= ModifiedLimit) =>
                (cvCall.ok /\ cvQueue = cvCall.queueBefore \cup CvNewer)
          /\ (k >= ModifiedLimit + 1) => ~cvCall.ok

\* C6 witness: three documents newer than cached, none deleted, a new
\* document present: the call returned true and queued exactly the three.
C6_Witness ==
    /\ cvCall.made /\ cvCall.ok
    /\ cvCall.queueBefore = {}
    /\ Cardinality(CvNewer) = NewFileLimit
    /\ CvNew # {}
    /\ cvQueue = CvNewer

\* C28: a call to isCacheValid that returns false leaves the incremental
\* update queue and the debounce timer unchanged: documents are queued only
\* by calls that return true.
C28_InvalidLeavesQueue ==
    (cvCall.made /\ ~cvCall.ok) =>
        /\ cvQueue = cvCall.queueBefore
        /\ cvTimer = cvCall.timerBefore

(***************************************************************************)
(* The cache engine.  Every document holds one callout carrying a block id *)
(* (its calloutID is its path's); `body` stands for its type, title and    *)
(* content.  An asynchronous operation runs in a task slot; a step of a    *)
(* task is the code between two awaits of an I/O promise.                  *)
(***************************************************************************)
File == 1..NFiles
Task == 1..NTasks

NoCache == [present |-> FALSE, callouts |-> << >>, fileModTimes |-> << >>]

IdleTask == [kind |-> "idle", pc |-> "idle", stage |-> 0, wait |-> 0,
             loaded |-> NoCache, cache |-> NoCache, callouts |-> << >>,
             todo |-> << >>, before |-> {}, writes |-> 0, files |-> {}]

\* the cache validity variables are not used by the engine
CvIdle ==
    /\ cvVault = << >> /\ cvCached = FALSE /\ cvFileModTimes = << >>
    /\ cvTouched = {} /\ cvQueue = {} /\ cvTimer = FALSE /\ cvCall = NoCall

(***************************************************************************)
(* utils.ts hasCalloutChanged; callout-parser.ts extractCalloutsFromFile:  *)
(* the record of document f read now, its times resolved against the      *)
(* existing cache (lines 162-218).                                         *)
(***************************************************************************)
hasCalloutChanged(newBody, existing) == newBody # existing.body

FindExisting(callouts, f) ==
    LET hits == {i \in 1..Len(callouts) :
                    callouts[i].file = f /\ callouts[i].calloutID = f}
    IN IF hits = {} THEN 0 ELSE CHOOSE i \in hits : \A j \in hits : i <= j

\* mutant of CreationTime: the creation time is always the time of this parse
CreationTime_Fresh(existingCallout, currentReadableTime) == currentReadableTime

CreationTime(existingCallout, currentReadableTime) ==
    existingCallout.calloutCreatedTime

extractCalloutsFromFile(f, v, existingCache, currentTime) ==
    LET currentReadableTime == timestampToReadable(currentTime)
        fileModTimeReadable == timestampToReadable(v[f].mtime)
        i == IF existingCache.present
                THEN FindExisting(existingCache.callouts, f) ELSE 0
        times ==
            IF existingCache.present
            THEN IF i # 0
                 THEN [c |-> CreationTime(existingCache.callouts[i], currentReadableTime),
                       m |-> IF hasCalloutChanged(v[f].body, existingCache.callouts[i])
                             THEN currentReadableTime
                             ELSE existingCache.callouts[i].calloutModifyTime]
                 ELSE [c |-> currentReadableTime, m |-> currentReadableTime]
            ELSE [c |-> fileModTimeReadable, m |-> fileModTimeReadable]
    IN << [file |-> f, calloutID |-> f, body |-> v[f].body,
           fileModTime |-> fileModTimeReadable,
           calloutCreatedTime |-> times.c, calloutModifyTime |-> times.m] >>

\* mutant of ScanOrder: the enumeration loop does not skip the processed
\* document
ScanOrder_NoProcessedSet(v, active) ==
    LET first == IF active # 0 THEN <<active>> ELSE << >>
    IN first \o SelectSeq(getMarkdownFiles(v),
                          LAMBDA f : ~shouldSkipFile(f, DOMAIN v))

\* callout-parser.ts scanAllCallouts lines 49-71: the documents a scan reads,
\* the active document first
ScanOrder(v, active) ==
    LET first == IF active # 0 THEN <<active>> ELSE << >>
    IN first \o SelectSeq(getMarkdownFiles(v),
                          LAMBDA f : f # active /\ ~shouldSkipFile(f, DOMAIN v))

\* cache.ts loadCalloutCache lines 23-32: wait for the lock's promise if there
\* is one, then ask whether the file exists
LoadStart(task) ==
    IF cacheOperationLock # 0
    THEN [task EXCEPT !.pc = "lockWait", !.wait = cacheOperationLock]
    ELSE [task EXCEPT !.pc = "exists"]

WriteInFlight(t) == tasks[t].pc \in {"writing", "incWriting"}

ReadInFlight(t) == tasks[t].pc = "reading"

\* operations start in the lowest free slot
FreeSlot(t) ==
    /\ tasks[t].kind = "idle"
    /\ \A u \in Task : u < t => tasks[u].kind # "idle"

\* the clock advances in half seconds; the documents were written half a
\* second before the plugin is constructed
TickMs == MsPerSecond \div 2

Init ==
    /\ vault = [f \in File |-> [exists |-> TRUE, mtime |-> MsPerSecond, body |-> 0]]
    /\ activeFile \in {0, NFiles - 1, NFiles}
    /\ now = MsPerSecond + TickMs
    /\ edits = 0
    /\ cacheFile = NoCache
    /\ cacheOperationLock = 0
    /\ incrementalUpdateQueue = {}
    /\ incrementalUpdateTimer = FALSE
    /\ tasks = [t \in Task |-> IdleTask]
    /\ started = 0
    /\ CvIdle
    /\ IdIdle
    /\ GraphIdle
    /\ ParserIdle
    /\ LoadIdle
    /\ ScanIdle
    /\ ViewIdle
    /\ EdgeIdle

(***************************************************************************)
(* The environment: the clock and the user's edits                         *)
(***************************************************************************)
Tick ==
    /\ now < MsPerSecond + (MaxTicks + 1) * TickMs
    /\ now' = now + TickMs
    /\ UNCHANGED <<vault, activeFile, edits, cacheFile, cacheOperationLock,
                   incrementalUpdateQueue, incrementalUpdateTimer, started,
                   tasks, cvVars, idVars, graphVars, parserVars, loadVars,
                   scanVars, viewVars, edgeVars>>

Modify(f) ==
    /\ edits < MaxEdits
    /\ vault[f].exists
    /\ vault' = [vault EXCEPT ![f].mtime = now, ![f].body = 1 - @]
    /\ edits' = edits + 1
    /\ UNCHANGED <<activeFile, now, cacheFile, cacheOperationLock,
                   incrementalUpdateQueue, incrementalUpdateTimer, started,
                   tasks, cvVars, idVars, graphVars, parserVars, loadVars,
                   scanVars, viewVars, edgeVars>>

Delete(f) ==
    /\ edits < MaxEdits
    /\ vault[f].exists
    /\ f # activeFile
    /\ vault' = [vault EXCEPT ![f].exists = FALSE]
    /\ edits' = edits + 1
    /\ UNCHANGED <<activeFile, now, cacheFile, cacheOperationLock,
                   incrementalUpdateQueue, incrementalUpdateTimer, started,
                   tasks, cvVars, idVars, graphVars, parserVars, loadVars,
                   scanVars, viewVars, edgeVars>>

(***************************************************************************)
(* What a step of task t leaves behind: its slot, the lock, the queue and   *)
(* the timer.  A task that returns or throws leaves its slot idle.         *)
(***************************************************************************)
Outcome(task, lock, queue, timer) ==
    [task |-> task, lock |-> lock, queue |-> queue, timer |-> timer]

Continue(task) ==
    Outcome(task, cacheOperationLock, incrementalUpdateQueue,
            incrementalUpdateTimer)

Returns == Continue(IdleTask)

Apply(t, o) ==
    /\ tasks' = [tasks EXCEPT ![t] = o.task]
    /\ cacheOperationLock' = o.lock
    /\ incrementalUpdateQueue' = o.queue
    /\ incrementalUpdateTimer' = o.timer

\* cache.ts saveCalloutCache lines 102-120, 154: saveOperation() collects the
\* modification times, builds the cache and awaits adapter.exists; the lock
\* is set to its promise
SaveStart(t, task) ==
    Outcome([task EXCEPT !.pc = "saveExists",
                         !.cache = [present |-> TRUE, callouts |-> task.callouts,
                                    fileModTimes |-> CollectFileModTimes(vault)]],
            t, incrementalUpdateQueue, incrementalUpdateTimer)

\* mutant of ScanFinished: extractAllCallouts saves the scan like refreshAllCallouts
ScanFinished_AlwaysSave(t, task) == SaveStart(t, task)

\* scanAllCallouts returned: refreshAllCallouts saves (main plugin line 147),
\* extractAllCallouts returns the callouts (callout-parser.ts lines 43-44)
ScanFinished(t, task) ==
    IF task.kind = "refresh"
    THEN SaveStart(t, task)
    ELSE Returns

ScanContinue(t, task) ==
    IF task.todo = << >>
    THEN ScanFinished(t, task)
    ELSE Continue([task EXCEPT !.pc = "scanRead"])

\* mutant of BatchContinue: the cache is written once per document
BatchContinue_WritePerDocument(task) ==
    IF task.todo = << >>
    THEN Continue([task EXCEPT !.pc = "incWriting", !.writes = @ + 1])
    ELSE Continue([task EXCEPT
            !.pc = "batchRead", !.writes = @ + 1,
            !.cache.callouts = SelectSeq(@, LAMBDA c : c.file # Head(task.todo))])

\* cache.ts processIncrementalUpdates lines 253-270: the next document's old
\* callouts are filtered out and its read is awaited; after the last one
\* saveIncrementalCache writes
BatchContinue(task) ==
    IF task.todo = << >>
    THEN Continue([task EXCEPT !.pc = "incWriting", !.writes = @ + 1])
    ELSE Continue([task EXCEPT
            !.pc = "batchRead",
            !.cache.callouts = SelectSeq(@, LAMBDA c : c.file # Head(task.todo))])

\* what follows `await loadCalloutCache()` when it yields cache c
AfterLoad(t, c) ==
    LET task == tasks[t]
        valid == IF c.present
                 THEN isCacheValid(c.fileModTimes, vault, incrementalUpdateQueue)
                 ELSE [ok |-> FALSE, queue |-> incrementalUpdateQueue, queued |-> FALSE]
    IN CASE task.kind = "load" ->
              Returns
         [] task.kind = "extract" /\ task.stage = 1 ->
              IF valid.ok
              THEN Outcome(IdleTask, cacheOperationLock, valid.queue,
                           incrementalUpdateTimer \/ valid.queued)
              ELSE Outcome(LoadStart([task EXCEPT !.stage = 2,
                                         !.todo = ScanOrder(vault, activeFile)]),
                           cacheOperationLock, valid.queue,
                           incrementalUpdateTimer \/ valid.queued)
         [] task.kind \in {"extract", "refresh"} /\ task.stage = 2 ->
              ScanContinue(t, [task EXCEPT !.cache = c, !.loaded = c])
         [] task.kind = "batch" ->
              IF ~c.present
              THEN Returns
              ELSE Outcome([task EXCEPT !.pc = "import", !.cache = c, !.loaded = c,
                                        !.todo = SeqOfSet(incrementalUpdateQueue),
                                        !.files = incrementalUpdateQueue],
                           cacheOperationLock, {}, incrementalUpdateTimer)

(***************************************************************************)
(* Operations the view and the plugin start                                *)
(***************************************************************************)
\* loadCalloutCache() on its own (view refresh in search mode)
StartLoad(t) ==
    /\ FreeSlot(t)
    /\ started < MaxOps
    /\ started' = started + 1
    /\ tasks' = [tasks EXCEPT ![t] = LoadStart([IdleTask EXCEPT !.kind = "load"])]
    /\ UNCHANGED <<vault, activeFile, now, edits, cacheFile, cacheOperationLock,
                   incrementalUpdateQueue, incrementalUpdateTimer, cvVars, idVars, graphVars, parserVars, loadVars,
                   scanVars, viewVars, edgeVars>>

\* refreshAllCallouts(): scanAllCallouts lists the documents, then loads the cache
StartRefresh(t) ==
    /\ FreeSlot(t)
    /\ started < MaxOps
    /\ started' = started + 1
    /\ tasks' = [tasks EXCEPT ![t] =
                    LoadStart([IdleTask EXCEPT !.kind = "refresh", !.stage = 2,
                                  !.todo = ScanOrder(vault, activeFile)])]
    /\ UNCHANGED <<vault, activeFile, now, edits, cacheFile, cacheOperationLock,
                   incrementalUpdateQueue, incrementalUpdateTimer, cvVars, idVars, graphVars, parserVars, loadVars,
                   scanVars, viewVars, edgeVars>>

\* extractAllCallouts(): loads the cache first
StartExtract(t) ==
    /\ FreeSlot(t)
    /\ started < MaxOps
    /\ started' = started + 1
    /\ tasks' = [tasks EXCEPT ![t] =
                    LoadStart([IdleTask EXCEPT !.kind = "extract", !.stage = 1])]
    /\ UNCHANGED <<vault, activeFile, now, edits, cacheFile, cacheOperationLock,
                   incrementalUpdateQueue, incrementalUpdateTimer, cvVars, idVars, graphVars, parserVars, loadVars,
                   scanVars, viewVars, edgeVars>>

\* the debounce timer fires: processIncrementalUpdates lines 234-240
TimerFire ==
    /\ incrementalUpdateTimer
    /\ incrementalUpdateTimer' = FALSE
    /\ IF incrementalUpdateQueue = {}
       THEN UNCHANGED tasks
       ELSE \E t \in Task :
              /\ FreeSlot(t)
              /\ tasks' = [tasks EXCEPT ![t] =
                              LoadStart([IdleTask EXCEPT !.kind = "batch"])]
    /\ UNCHANGED <<vault, activeFile, now, edits, cacheFile, cacheOperationLock,
                   incrementalUpdateQueue, started, cvVars, idVars, graphVars, parserVars, loadVars,
                   scanVars, viewVars, edgeVars>>

(***************************************************************************)
(* Completions of awaited I/O                                              *)
(***************************************************************************)
\* loadCalloutCache: adapter.exists resolved (lines 32-37)
LoadExists(t) ==
    /\ tasks[t].pc = "exists"
    /\ IF cacheFile.present
       THEN Apply(t, Continue([tasks[t] EXCEPT
                       !.pc = "reading",
                       !.before = {u \in Task : WriteInFlight(u)}]))
       ELSE Apply(t, AfterLoad(t, NoCache))
    /\ UNCHANGED <<vault, activeFile, now, edits, cacheFile, started, cvVars, idVars, graphVars, parserVars, loadVars,
                   scanVars, viewVars, edgeVars>>

\* what adapter.read and JSON.parse can yield (lines 37-49): the cache file's
\* content, or, read while a write of the file is in flight, text that does
\* not parse, for which loadCalloutCache returns null
ReadResults == {cacheFile} \cup (IF \E u \in Task : WriteInFlight(u)
                                  THEN {NoCache} ELSE {})

\* loadCalloutCache: adapter.read resolved (lines 37-93)
LoadRead(t) ==
    /\ tasks[t].pc = "reading"
    /\ \E c \in ReadResults : Apply(t, AfterLoad(t, c))
    /\ UNCHANGED <<vault, activeFile, now, edits, cacheFile, started, cvVars, idVars, graphVars, parserVars, loadVars,
                   scanVars, viewVars, edgeVars>>

\* scanAllCallouts: vault.read of the next document resolved or rejected
\* (extractCalloutsFromFile line 77 has no handler, nor has the scan loop)
ScanRead(t) ==
    /\ tasks[t].pc = "scanRead"
    /\ LET task == tasks[t]
           f == Head(task.todo)
       IN IF vault[f].exists
          THEN Apply(t, ScanContinue(t, [task EXCEPT
                         !.callouts = @ \o extractCalloutsFromFile(f, vault, task.cache, now),
                         !.todo = Tail(@)]))
          ELSE Apply(t, Returns)
    /\ UNCHANGED <<vault, activeFile, now, edits, cacheFile, started, cvVars, idVars, graphVars, parserVars, loadVars,
                   scanVars, viewVars, edgeVars>>

\* saveCalloutCache: adapter.exists(pluginDir) resolved, adapter.write begins
SaveExists(t) ==
    /\ tasks[t].pc = "saveExists"
    /\ Apply(t, Continue([tasks[t] EXCEPT !.pc = "writing", !.writes = @ + 1]))
    /\ UNCHANGED <<vault, activeFile, now, edits, cacheFile, started, cvVars, idVars, graphVars, parserVars, loadVars,
                   scanVars, viewVars, edgeVars>>

\* a finished write is no longer ahead of any read; the waiters on the lock
\* promise of task t go on
Released(t, all) ==
    [u \in Task |->
        IF all[u].pc = "lockWait" /\ all[u].wait = t
        THEN [all[u] EXCEPT !.pc = "exists", !.wait = 0]
        ELSE [all[u] EXCEPT !.before = @ \ {t}]]

\* saveCalloutCache: adapter.write resolved; lines 146, 155-158
WriteDone(t) ==
    /\ tasks[t].pc = "writing"
    /\ cacheFile' = tasks[t].cache
    /\ cacheOperationLock' = 0
    /\ tasks' = Released(t, [tasks EXCEPT ![t] = IdleTask])
    /\ UNCHANGED <<vault, activeFile, now, edits, incrementalUpdateQueue,
                   incrementalUpdateTimer, started, cvVars, idVars, graphVars, parserVars, loadVars,
                   scanVars, viewVars, edgeVars>>

\* processIncrementalUpdates: `await import('./callout-parser')` resolved
ImportDone(t) ==
    /\ tasks[t].pc = "import"
    /\ Apply(t, BatchContinue(tasks[t]))
    /\ UNCHANGED <<vault, activeFile, now, edits, cacheFile, started, cvVars, idVars, graphVars, parserVars, loadVars,
                   scanVars, viewVars, edgeVars>>

PutModTime(fmt, f, readable) ==
    [g \in DOMAIN fmt \cup {f} |-> IF g = f THEN readable ELSE fmt[g]]

\* processIncrementalUpdates: the document's read resolved (lines 259-263) or
\* rejected (caught at line 264)
BatchRead(t) ==
    /\ tasks[t].pc = "batchRead"
    /\ LET task == tasks[t]
           f == Head(task.todo)
           new == extractCalloutsFromFile(f, vault, task.cache, now)
       IN IF vault[f].exists
          THEN Apply(t, BatchContinue([task EXCEPT
                         !.cache.callouts = @ \o new,
                         !.cache.fileModTimes =
                             PutModTime(@, f, timestampToReadable(vault[f].mtime)),
                         !.callouts = @ \o new,
                         !.todo = Tail(@)]))
          ELSE Apply(t, BatchContinue([task EXCEPT !.todo = Tail(@)]))
    /\ UNCHANGED <<vault, activeFile, now, edits, cacheFile, started, cvVars, idVars, graphVars, parserVars, loadVars,
                   scanVars, viewVars, edgeVars>>

\* saveIncrementalCache: adapter.write resolved (lines 295-296)
IncWriteDone(t) ==
    /\ tasks[t].pc = "incWriting"
    /\ cacheFile' = tasks[t].cache
    /\ tasks' = [u \in Task |->
                    IF u = t THEN IdleTask ELSE [tasks[u] EXCEPT !.before = @ \ {t}]]
    /\ UNCHANGED <<vault, activeFile, now, edits, cacheOperationLock,
                   incrementalUpdateQueue, incrementalUpdateTimer, started, cvVars, idVars, graphVars, parserVars, loadVars,
                   scanVars, viewVars, edgeVars>>

Next ==
    \/ Tick
    \/ \E f \in File : Modify(f)
    \/ \E f \in File : Delete(f)
    \/ \E t \in Task : StartLoad(t)
    \/ \E t \in Task : StartRefresh(t)
    \/ \E t \in Task : StartExtract(t)
    \/ TimerFire
    \/ \E t \in Task : LoadExists(t)
    \/ \E t \in Task : LoadRead(t)
    \/ \E t \in Task : ScanRead(t)
    \/ \E t \in Task : SaveExists(t)
    \/ \E t \in Task : WriteDone(t)
    \/ \E t \in Task : ImportDone(t)
    \/ \E t \in Task : BatchRead(t)
    \/ \E t \in Task : IncWriteDone(t)

Spec == Init /\ [][Next]_vars

(***************************************************************************)
(* Claims about the cache engine                                           *)
(***************************************************************************)
\* C1: mutual exclusion on the cache file: never two writes of the cache file
\* in flight at once (saveCalloutCache or saveIncrementalCache), and no
\* loadCalloutCache reads the file while a write that began before the read
\* is still in flight.
C1_CacheFileMutex ==
    /\ Cardinality({t \in Task : WriteInFlight(t)}) <= 1
    /\ \A t \in Task : ReadInFlight(t) => tasks[t].before = {}

\* the part of a processIncrementalUpdates run between its cache load and its
\* cache write
InBatch(t) == tasks[t].kind = "batch" /\ tasks[t].pc \in {"import", "batchRead"}

\* C2: incremental batches are single-flight: at most one run of
\* processIncrementalUpdates is between its cache load and its cache write.
C2_BatchSingleFlight == Cardinality({t \in Task : InBatch(t)}) <= 1

\* C3: created_time is carried forward by every re-parse: a record parsed by a
\* full scan or an incremental batch whose (file, calloutID) had a record in
\* the cache the operation loaded keeps that record's calloutCreatedTime.
C3_CreatedTimeCarried ==
    \A t \in Task :
        \A i \in 1..Len(tasks[t].callouts) :
            LET new == tasks[t].callouts[i]
                old == tasks[t].loaded.callouts
            IN \A j \in 1..Len(old) :
                 (old[j].file = new.file /\ old[j].calloutID = new.calloutID)
                    => new.calloutCreatedTime = old[j].calloutCreatedTime

\* the read a scanning task is waiting for is rejected
ScanReadFails(t) ==
    tasks[t].pc = "scanRead" /\ ~vault[Head(tasks[t].todo)].exists

\* C8: every full scan that completes is followed by a write of the cache
\* before the operation returns: when the last document of a scan has been
\* read, the operation goes on to save, for extractAllCallouts' fallback scan
\* as for refreshAllCallouts.
C8_ScanIsPersisted ==
    [][\A t \in Task :
          (/\ tasks[t].pc = "scanRead"
           /\ Len(tasks[t].todo) = 1
           /\ ~ScanReadFails(t)
           /\ tasks'[t] # tasks[t]) => tasks'[t].pc = "saveExists"]_vars

\* C9: a document whose read fails during a full scan contributes nothing and
\* the scan goes on with the remaining documents, keeping the records it has.
C9_ScanSurvivesFailedRead ==
    [][\A t \in Task :
          (/\ ScanReadFails(t)
           /\ Len(tasks[t].todo) > 1
           /\ tasks'[t] # tasks[t]) =>
              /\ tasks'[t].pc = "scanRead"
              /\ tasks'[t].todo = Tail(tasks[t].todo)
              /\ tasks'[t].callouts = tasks[t].callouts]_vars

\* C13: a run of processIncrementalUpdates that processes a batch writes the
\* cache file exactly once, after every document of the batch has been
\* re-parsed or has failed: no write is begun while documents remain, and the
\* run ends only from its single write.
C13_OneWritePerBatch ==
    [][\A t \in Task :
          (tasks[t].kind = "batch" /\ tasks[t].pc \in {"import", "batchRead", "incWriting"}) =>
              /\ tasks[t].pc # "incWriting" => tasks[t].writes = 0
              /\ tasks[t].pc = "incWriting" =>
                    tasks[t].writes = 1 /\ tasks[t].todo = << >>
              /\ tasks'[t].kind # "batch" => tasks[t].pc = "incWriting"]_vars

\* C13 witness: a batch of two documents is in its only write
C13_Witness ==
    \E t \in Task :
        /\ tasks[t].kind = "batch" /\ tasks[t].pc = "incWriting"
        /\ tasks[t].writes = 1
        /\ Len(tasks[t].callouts) = 2

\* a task that runs scanAllCallouts
Scanning(t) == tasks[t].kind \in {"refresh", "extract"} /\ tasks[t].stage = 2

\* C21: in the list scanAllCallouts builds and returns, the records of the
\* active document come before the records of every other document, and no
\* document contributes its records twice.
C21_ActiveFirstScannedOnce ==
    \A t \in Task :
        Scanning(t) =>
            LET callouts == tasks[t].callouts
            IN \A i, j \in 1..Len(callouts) :
                 /\ (i < j) => callouts[i].file # callouts[j].file
                 /\ (callouts[j].file = activeFile /\ callouts[i].file # activeFile)
                        => j < i

\* C21 witness: a scan has returned the records of the active document and
\* of two other documents to refreshAllCallouts
C21_Witness ==
    \E t \in Task :
        /\ Scanning(t) /\ tasks[t].pc = "saveExists"
        /\ activeFile # 0
        /\ Len(tasks[t].callouts) = NFiles - 1
        /\ tasks[t].callouts[1].file = activeFile

\* C25: the modification time stored for a document in the persisted cache
\* is never newer than the modification time of the text its cached records
\* were parsed from, so a document modified after the scan parsed it and
\* before saveCalloutCache ran is still classified as modified later.
C25_StoredTimeNotNewer ==
    cacheFile.present =>
        \A i \in 1..Len(cacheFile.callouts) :
            LET record == cacheFile.callouts[i]
            IN record.file \in DOMAIN cacheFile.fileModTimes =>
                 cacheFile.fileModTimes[record.file] <= record.fileModTime

\* what a cache holds for document f: its records and its modification time
\* (0: none)
EntryOf(cache, f) ==
    [callouts |-> SelectSeq(cache.callouts, LAMBDA c : c.file = f),
     modTime |-> IF f \in DOMAIN cache.fileModTimes
                 THEN cache.fileModTimes[f] ELSE 0]

\* C26: no lost update between full and incremental persistence: the write
\* of an incremental batch leaves the persisted records and modification
\* times of the documents outside the batch as they are, also when
\* saveCalloutCache for a full scan completed after the batch loaded the
\* cache.
C26_BatchWriteKeepsOthers ==
    [][\A t \in Task :
          (tasks[t].pc = "incWriting" /\ tasks'[t].pc # "incWriting") =>
              \A f \in File \ tasks[t].files :
                  EntryOf(cacheFile', f) = EntryOf(cacheFile, f)]_vars

\* C29: in every cache saveCalloutCache writes after a full scan, each
\* document with a record in the callouts list has an entry in fileModTimes,
\* also when the active document lies in an excluded folder.  (Stated for
\* the documents that still exist when the write begins.)
C29_RecordsHaveModTimes ==
    \A t \in Task :
        (tasks[t].kind = "refresh" /\ tasks[t].pc = "writing") =>
            \A i \in 1..Len(tasks[t].cache.callouts) :
                LET f == tasks[t].cache.callouts[i].file
                IN vault[f].exists => f \in DOMAIN tasks[t].cache.fileModTimes

\* a run of processIncrementalUpdates is in progress
BatchRunning == \E t \in Task : tasks[t].kind = "batch"

\* C27: every document placed in the incremental update queue is eventually
\* removed from it: whenever the queue is not empty and no batch is running,
\* a debounce timer is pending, also after a timer fired and
\* loadCalloutCache returned no cache.
C27_QueuedHasTimer ==
    (incrementalUpdateQueue # {} /\ ~BatchRunning) => incrementalUpdateTimer

(***************************************************************************)
(* The id write-back.  Every document holds one callout and the view holds *)
(* one record for it.  `matches` says that the document text still holds a *)
(* callout of the record's type and content, textId is the block id in     *)
(* that callout's text (0: none), writeFails that vault.modify rejects.    *)
(***************************************************************************)
IdDoc == 1..NIdDocs
GenId == 1..NGenIds
UserId == NGenIds + 1            \* an id the user typed into the text

NoHandler == [kind |-> "none", pc |-> "idle", id |-> 0]

NoGraph == [built |-> FALSE, subpath |-> 0]

\* createCalloutGraphCanvas lines 154-184: the focal node's subpath is made
\* of the record's calloutID (0: undefined)
FocalNode(d, calloutID) == [built |-> TRUE, subpath |-> calloutID]

CacheIdle == cvVault = << >> /\ cvCached = FALSE /\ cvFileModTimes = << >>
             /\ cvTouched = {} /\ cvQueue = {} /\ cvTimer = FALSE
             /\ cvCall = NoCall /\ EngineIdle

IdInit ==
    /\ idDocs \in [IdDoc -> [exists : {TRUE}, matches : {TRUE},
                             textId : {0, UserId}, writeFails : {FALSE}]]
    /\ idRecs = [d \in IdDoc |-> idDocs[d].textId]
    /\ idHandlers = [d \in IdDoc |-> NoHandler]
    /\ idGraph = NoGraph
    /\ CacheIdle
    /\ GraphIdle
    /\ ParserIdle
    /\ LoadIdle
    /\ ScanIdle
    /\ ViewIdle
    /\ EdgeIdle

\* the user deletes the document
IdDelete(d) ==
    /\ idDocs[d].exists
    /\ idDocs' = [idDocs EXCEPT ![d].exists = FALSE]
    /\ UNCHANGED <<idRecs, idHandlers, idGraph, cvVars, engineVars, graphVars, parserVars, loadVars,
                   scanVars, viewVars, edgeVars>>

\* the user rewrites the callout: the record no longer matches the text
IdEdit(d) ==
    /\ idDocs[d].exists /\ idDocs[d].matches
    /\ idDocs' = [idDocs EXCEPT ![d].matches = FALSE]
    /\ UNCHANGED <<idRecs, idHandlers, idGraph, cvVars, engineVars, graphVars, parserVars, loadVars,
                   scanVars, viewVars, edgeVars>>

\* the user types a block id into the callout
IdUserAddsId(d) ==
    /\ idDocs[d].exists /\ idDocs[d].textId = 0
    /\ idDocs' = [idDocs EXCEPT ![d].textId = UserId]
    /\ UNCHANGED <<idRecs, idHandlers, idGraph, cvVars, engineVars, graphVars, parserVars, loadVars,
                   scanVars, viewVars, edgeVars>>

\* the document becomes read-only
IdLock(d) ==
    /\ idDocs[d].exists /\ ~idDocs[d].writeFails
    /\ idDocs' = [idDocs EXCEPT ![d].writeFails = TRUE]
    /\ UNCHANGED <<idRecs, idHandlers, idGraph, cvVars, engineVars, graphVars, parserVars, loadVars,
                   scanVars, viewVars, edgeVars>>

\* what the handler awaits once addCalloutIdToCallout has returned:
\* openCalloutCanvas awaits extractAllCallouts, the drag handler awaits
\* saveCalloutCache
AfterAdd(h) == [h EXCEPT !.pc = IF h.kind = "canvas" THEN "extract" ELSE "save"]

\* addCalloutIdToCallout lines 327-333: no such file returns at once,
\* otherwise vault.read is awaited
AddStart(d, h) ==
    IF idDocs[d].exists THEN [h EXCEPT !.pc = "read"] ELSE AfterAdd(h)

\* openCalloutCanvas lines 444-451, for a record without an id
OpenCalloutCanvas(d) ==
    /\ idHandlers[d].pc = "idle"
    /\ idRecs[d] = 0
    /\ \E newCalloutID \in GenId :
         /\ idRecs' = [idRecs EXCEPT ![d] = newCalloutID]
         /\ idHandlers' = [idHandlers EXCEPT ![d] =
                AddStart(d, [kind |-> "canvas", pc |-> "idle", id |-> newCalloutID])]
    /\ UNCHANGED <<idDocs, idGraph, cvVars, engineVars, graphVars, parserVars, loadVars,
                   scanVars, viewVars, edgeVars>>

\* ondragstart (view lines 483-491), for a record without an id
DragStart(d) ==
    /\ idHandlers[d].pc = "idle"
    /\ idRecs[d] = 0
    /\ \E calloutID \in GenId :
         /\ idRecs' = [idRecs EXCEPT ![d] = calloutID]
         /\ idHandlers' = [idHandlers EXCEPT ![d] =
                [kind |-> "drag", pc |-> "dragging", id |-> calloutID]]
    /\ UNCHANGED <<idDocs, idGraph, cvVars, engineVars, graphVars, parserVars, loadVars,
                   scanVars, viewVars, edgeVars>>

\* ondragend's timeout runs (view lines 523-531)
DragEnd(d) ==
    /\ idHandlers[d].pc = "dragging"
    /\ idHandlers' = [idHandlers EXCEPT ![d] = AddStart(d, @)]
    /\ UNCHANGED <<idDocs, idRecs, idGraph, cvVars, engineVars, graphVars, parserVars, loadVars,
                   scanVars, viewVars, edgeVars>>

\* addCalloutIdToCallout lines 333-427: vault.read resolved or rejected; no
\* matching callout or an id already in the text returns, otherwise
\* vault.modify is awaited
AddRead(d) ==
    /\ idHandlers[d].pc = "read"
    /\ idHandlers' = [idHandlers EXCEPT ![d] =
          IF idDocs[d].exists /\ idDocs[d].matches /\ idDocs[d].textId = 0
          THEN [@ EXCEPT !.pc = "modify"]
          ELSE AfterAdd(@)]
    /\ UNCHANGED <<idDocs, idRecs, idGraph, cvVars, engineVars, graphVars, parserVars, loadVars,
                   scanVars, viewVars, edgeVars>>

\* addCalloutIdToCallout lines 428-435: vault.modify resolved (the id is in
\* the text, the record's id is assigned) or rejected (caught, logged)
AddModify(d) ==
    /\ idHandlers[d].pc = "modify"
    /\ IF idDocs[d].exists /\ ~idDocs[d].writeFails
       THEN /\ idDocs' = [idDocs EXCEPT ![d].textId = idHandlers[d].id]
            /\ idRecs' = [idRecs EXCEPT ![d] = idHandlers[d].id]
       ELSE UNCHANGED <<idDocs, idRecs>>
    /\ idHandlers' = [idHandlers EXCEPT ![d] = AfterAdd(@)]
    /\ UNCHANGED <<idGraph, cvVars, engineVars, graphVars, parserVars, loadVars,
                   scanVars, viewVars, edgeVars>>

\* openCalloutCanvas lines 453-461: extractAllCallouts resolved, or rejected
\* and the catch resets the record's id and returns
CanvasExtract(d) ==
    /\ idHandlers[d].pc = "extract"
    /\ \E rejected \in BOOLEAN :
         IF rejected
         THEN /\ idRecs' = [idRecs EXCEPT ![d] = 0]
              /\ idHandlers' = [idHandlers EXCEPT ![d] = NoHandler]
         ELSE /\ idRecs' = idRecs
              /\ idHandlers' = [idHandlers EXCEPT ![d].pc = "save"]
    /\ UNCHANGED <<idDocs, idGraph, cvVars, engineVars, graphVars, parserVars, loadVars,
                   scanVars, viewVars, edgeVars>>

\* saveCalloutCache resolved (it never rejects, cache.ts lines 147-150): the
\* handler is done; openCalloutCanvas goes on to build the graph (line 464)
IdSaveDone(d) ==
    /\ idHandlers[d].pc = "save"
    /\ idHandlers' = [idHandlers EXCEPT ![d] = NoHandler]
    /\ idGraph' = IF idHandlers[d].kind = "canvas"
                   THEN FocalNode(d, idRecs[d]) ELSE idGraph
    /\ UNCHANGED <<idDocs, idRecs, cvVars, engineVars, graphVars, parserVars, loadVars,
                   scanVars, viewVars, edgeVars>>

\* the view's canvas button (view lines 436-440, 639-643): the record goes
\* to createCalloutGraphCanvas as it is
ViewCanvasButton(d) ==
    /\ idGraph' = FocalNode(d, idRecs[d])
    /\ idGraph' # idGraph
    /\ UNCHANGED <<idDocs, idRecs, idHandlers, cvVars, engineVars, graphVars, parserVars, loadVars,
                   scanVars, viewVars, edgeVars>>

IdNext ==
    \/ \E d \in IdDoc : IdDelete(d)
    \/ \E d \in IdDoc : IdEdit(d)
    \/ \E d \in IdDoc : IdUserAddsId(d)
    \/ \E d \in IdDoc : IdLock(d)
    \/ \E d \in IdDoc : OpenCalloutCanvas(d)
    \/ \E d \in IdDoc : DragStart(d)
    \/ \E d \in IdDoc : DragEnd(d)
    \/ \E d \in IdDoc : AddRead(d)
    \/ \E d \in IdDoc : AddModify(d)
    \/ \E d \in IdDoc : CanvasExtract(d)
    \/ \E d \in IdDoc : IdSaveDone(d)
    \/ \E d \in IdDoc : ViewCanvasButton(d)

SpecId == IdInit /\ [][IdNext]_vars

\* C7: when openCalloutCanvas or the drag handler completes, a record whose
\* id write-back failed (document gone, no matching callout, write rejected)
\* has its id reset to absent: no record carries an id that is not in the
\* document text.
C7_FailedWriteBackRollsBack ==
    [][\A d \in IdDoc :
          (idHandlers[d].pc # "idle" /\ idHandlers'[d].pc = "idle") =>
              (idRecs'[d] # 0 =>
                  idDocs'[d].exists /\ idDocs'[d].textId = idRecs'[d])]_vars

\* C11: every graph the builder produces has its focal node bound to a
\* defined id: a focal record without id gets one generated and assigned
\* before the node and its subpath are derived.
C11_FocalNodeHasId == idGraph.built => idGraph.subpath # 0

(***************************************************************************)
(* The relationship graph builder (canvas-handler.ts).  Every indexed      *)
(* callout has an id and lives in its own document; a callout stands for   *)
(* its key "file:calloutID".  A canvas node is bound to a callout by its   *)
(* file and subpath, so a node and an edge of a canvas file are written as *)
(* the callouts they are bound to.                                         *)
(***************************************************************************)
Callout == 1..NCallouts

NoCanvas == [exists |-> FALSE, nodes |-> {}, edges |-> {},
             left |-> {}, right |-> {}, center |-> {}]

\* callout.outlinks
Outlinks(links, c) == {b \in Callout : <<c, b>> \in links}

\* createCalloutGraphCanvas lines 223-250: the focal callout's outlink targets
\* that link back
bidirectionalLinks(links, focal) ==
    {b \in Outlinks(links, focal) : b # focal /\ focal \in Outlinks(links, b)}

directOutlinks(links, focal) ==
    {b \in Outlinks(links, focal) : b # focal /\ focal \notin Outlinks(links, b)}

\* mutant of directInlinks: callouts already classified as bidirectional are
\* not left out
directInlinks_NoExclusion(links, focal) ==
    {a \in Callout : focal \in Outlinks(links, a) /\ a # focal}

\* lines 253-275: the callouts pointing to the focal callout
directInlinks(links, focal) ==
    {a \in Callout : /\ focal \in Outlinks(links, a)
                     /\ a # focal
                     /\ a \notin bidirectionalLinks(links, focal)}

\* part_006 processCanvasEdges lines 556-596: the outlinks with the edges of
\* one canvas file added
processCanvasEdges(canvas, links) ==
    links \cup {e \in canvas.edges : e[1] \in canvas.nodes /\ e[2] \in canvas.nodes}

\* part_006 analyzeCanvasLinks lines 522-550: the outlinks with the edges of
\* every canvas file added
analyzeCanvasLinks(files, links) ==
    links \cup UNION {processCanvasEdges(files[c], links) :
                        c \in {k \in DOMAIN files : files[k].exists}}

\* mutant of GraphLinks: the graph is built from the outlinks merged with the
\* edges of the canvas files
GraphLinks_Merged(files, links) == analyzeCanvasLinks(files, links)

\* createCalloutGraphCanvas line 187: the links the graph is built from are
\* the outlinks of getAllCallouts()
GraphLinks(files, links) == links

\* lines 169-184, 279-476: the canvas written for the focal callout, with the
\* side of the layout each neighbour is placed on
BuildCanvas(files, links, focal) ==
    LET l == GraphLinks(files, links)
        ins == directInlinks(l, focal)
        outs == directOutlinks(l, focal)
        bis == bidirectionalLinks(l, focal)
    IN [exists |-> TRUE,
        left |-> ins, right |-> outs, center |-> bis,
        nodes |-> {focal} \cup ins \cup outs \cup bis,
        edges |-> {<<a, focal>> : a \in ins}
                  \cup {<<focal, b>> : b \in outs}
                  \cup {<<focal, b>> : b \in bis}
                  \cup {<<b, focal>> : b \in bis}]

AllDrawn == UNION {gCanvasFiles[c].edges \ gOutlinks : c \in Callout}

GraphInit ==
    /\ gOutlinks = {}
    /\ gCanvasFiles = [c \in Callout |-> NoCanvas]
    /\ gLast = 0
    /\ layIn = << >> /\ layOut = << >>
    /\ CacheIdle
    /\ IdIdle
    /\ ParserIdle
    /\ LoadIdle
    /\ ScanIdle
    /\ ViewIdle
    /\ EdgeIdle

\* the user writes a link to callout b into the body of callout a; the scan
\* indexes it
WriteOutlink(a, b) ==
    /\ Cardinality(gOutlinks) < MaxLinks
    /\ <<a, b>> \notin gOutlinks
    /\ gOutlinks' = gOutlinks \cup {<<a, b>>}
    /\ gLast' = 0
    /\ UNCHANGED <<gCanvasFiles, layIn, layOut, cvVars, engineVars, idVars, parserVars,
                   loadVars,
                   scanVars, viewVars, edgeVars>>

\* the user draws an edge between two nodes of an exported canvas file
DrawEdge(c, a, b) ==
    /\ gCanvasFiles[c].exists
    /\ a \in gCanvasFiles[c].nodes /\ b \in gCanvasFiles[c].nodes /\ a # b
    /\ <<a, b>> \notin gCanvasFiles[c].edges
    /\ Cardinality(AllDrawn) < MaxDrawn
    /\ gCanvasFiles' = [gCanvasFiles EXCEPT ![c].edges = @ \cup {<<a, b>>}]
    /\ gLast' = 0
    /\ UNCHANGED <<gOutlinks, layIn, layOut, cvVars, engineVars, idVars, parserVars,
                   loadVars,
                   scanVars, viewVars, edgeVars>>

\* createCalloutGraphCanvas lines 150-497: the graph is built and the focal
\* callout's canvas file is deleted and created again (lines 478-487)
CreateCalloutGraphCanvas(focal) ==
    /\ gCanvasFiles' = [gCanvasFiles EXCEPT
                           ![focal] = BuildCanvas(gCanvasFiles, gOutlinks, focal)]
    /\ gLast' = focal
    /\ UNCHANGED <<gOutlinks, layIn, layOut, cvVars, engineVars, idVars, parserVars,
                   loadVars,
                   scanVars, viewVars, edgeVars>>

GraphNext ==
    \/ \E a, b \in Callout : WriteOutlink(a, b)
    \/ \E c, a, b \in Callout : DrawEdge(c, a, b)
    \/ \E focal \in Callout : CreateCalloutGraphCanvas(focal)

SpecGraph == GraphInit /\ [][GraphNext]_vars

\* the edges stored in the canvas files that join the focal callout and
\* another indexed callout
StoredEdgesOf(files, focal) ==
    {e \in UNION {files[c].edges : c \in {k \in Callout : files[k].exists}} :
        /\ e[1] # e[2]
        /\ focal \in {e[1], e[2]}}

\* C10: a graph built for a focal callout holds every edge stored in a
\* pre-existing exported canvas file that joins the focal callout and another
\* indexed callout, whether or not an outlink in a body expresses it.
C10_CanvasEdgesMerged ==
    [][\A focal \in Callout :
          (gLast' = focal /\ gCanvasFiles' # gCanvasFiles) =>
              StoredEdgesOf(gCanvasFiles, focal) \subseteq gCanvasFiles'[focal].edges]_vars

\* C19: in a graph built for a focal callout, a callout that is a target of
\* one of the focal callout's outlinks and links back to it is classified
\* only as bidirectional, in neither the inbound-only nor the outbound-only
\* class, and the focal callout is in no class.
C19_BidirectionalOnly ==
    gLast # 0 =>
        LET canvas == gCanvasFiles[gLast]
        IN /\ \A b \in Callout :
                (b # gLast /\ <<gLast, b>> \in gOutlinks /\ <<b, gLast>> \in gOutlinks)
                    => (b \in canvas.center /\ b \notin canvas.left
                                              /\ b \notin canvas.right)
           /\ gLast \notin canvas.left \cup canvas.right \cup canvas.center

\* C19 witness: a graph was built for a focal callout that links to itself
\* and has a neighbour linked in both directions
C19_Witness ==
    /\ gLast # 0
    /\ <<gLast, gLast>> \in gOutlinks
    /\ gCanvasFiles[gLast].center # {}

(***************************************************************************)
(* The callout parser on one document (callout-parser.ts                   *)
(* extractCalloutsFromFile).  A line is one of: a callout header           *)
(* "> [!type] title", a quoted content line "> text", a quoted block id    *)
(* line "> ^id", a blank line, a heading "#.. title" of some level, or     *)
(* other text.                                                             *)
(***************************************************************************)
Line == [kind : {"callout", "quote", "id", "blank", "text"}, level : {0}]
        \cup [kind : {"heading"}, level : 1..MaxLevel]

Documents(maxLen) == UNION {[1..n -> Line] : n \in 0..maxLen}

\* mutant of BodyEnd: a quoted line that is a callout header does not stop
\* the body
RECURSIVE BodyEnd_ThroughHeaders(_, _)
BodyEnd_ThroughHeaders(lines, j) ==
    IF j > Len(lines) THEN j
    ELSE IF lines[j].kind \in {"callout", "quote", "id", "blank"}
         THEN BodyEnd_ThroughHeaders(lines, j + 1)
    ELSE j

\* lines 113-144: the index at which the inner loop over the body stops: a
\* new callout header, a line that neither starts with '>' nor is blank, or
\* the end of the document
RECURSIVE BodyEnd(_, _)
BodyEnd(lines, j) ==
    IF j > Len(lines) THEN j
    ELSE IF lines[j].kind \in {"quote", "id", "blank"} THEN BodyEnd(lines, j + 1)
    ELSE j

\* lines 83-96: the headings of the document with their line numbers
allHeaders(lines) ==
    SelectSeq([i \in 1..Len(lines) |-> [level |-> lines[i].level, lineNumber |-> i,
                                          heading |-> lines[i].kind = "heading"]],
              LAMBDA h : h.heading)

\* mutant of PopDeeper: a heading of the same level is kept on the stack
RECURSIVE PopDeeper_KeepEqual(_, _)
PopDeeper_KeepEqual(hierarchy, level) ==
    IF Len(hierarchy) > 0 /\ hierarchy[Len(hierarchy)] > level
    THEN PopDeeper_KeepEqual(SubSeq(hierarchy, 1, Len(hierarchy) - 1), level)
    ELSE hierarchy

\* lines 156-158: pop the headings of the same or a deeper level
RECURSIVE PopDeeper(_, _)
PopDeeper(hierarchy, level) ==
    IF Len(hierarchy) > 0 /\ hierarchy[Len(hierarchy)] >= level
    THEN PopDeeper(SubSeq(hierarchy, 1, Len(hierarchy) - 1), level)
    ELSE hierarchy

\* lines 153-160: the hierarchy built from the relevant headings
RECURSIVE BuildHierarchy(_, _)
BuildHierarchy(headers, hierarchy) ==
    IF headers = << >> THEN hierarchy
    ELSE BuildHierarchy(Tail(headers),
                        Append(PopDeeper(hierarchy, Head(headers).level),
                               Head(headers).level))

\* lines 98-234: the records of the callouts found from line i on.  The loop
\* variable is moved to the last line of the body (line 147) before the line
\* number is taken from it (line 150); headerLine is the line of the header.
RECURSIVE ParseFrom(_, _)
ParseFrom(lines, i) ==
    IF i > Len(lines) THEN << >>
    ELSE IF lines[i].kind # "callout" THEN ParseFrom(lines, i + 1)
    ELSE LET j == BodyEnd(lines, i + 1)
             currentLineNumber == j - 1
             body == {k \in (i + 1)..(j - 1) : TRUE}
             relevantHeaders == SelectSeq(allHeaders(lines),
                                    LAMBDA h : h.lineNumber <= currentLineNumber)
         IN << [headerLine |-> i,
                body |-> body,
                lineNumber |-> currentLineNumber,
                hasID |-> \E k \in body : lines[k].kind = "id",
                content |-> Cardinality({k \in body : lines[k].kind = "quote"}),
                headerLevels |-> BuildHierarchy(relevantHeaders, << >>)] >>
            \o ParseFrom(lines, j)

ParseInit ==
    /\ pLines \in Documents(MaxLines)
    /\ pRecords = << >>
    /\ pDone = FALSE
    /\ tDoc = << >> /\ tNow = 0 /\ tParses = << >>
    /\ CacheIdle
    /\ IdIdle
    /\ GraphIdle
    /\ LoadIdle
    /\ ScanIdle
    /\ ViewIdle
    /\ EdgeIdle

\* extractCalloutsFromFile on the document
ParseDocument ==
    /\ ~pDone
    /\ pRecords' = ParseFrom(pLines, 1)
    /\ pDone' = TRUE
    /\ UNCHANGED <<pLines, tDoc, tNow, tParses, cvVars, engineVars, idVars, graphVars,
                   loadVars,
                   scanVars, viewVars, edgeVars>>

ParseNext == ParseDocument

SpecParse == ParseInit /\ [][ParseNext]_vars

\* C12: every record's lineNumber is the 1-based index of the line holding
\* the callout's header, whatever the number of body lines and trailing
\* blank lines.
C12_LineNumberIsHeaderLine ==
    \A r \in 1..Len(pRecords) : pRecords[r].lineNumber = pRecords[r].headerLine

\* the lines of the document that match the header grammar (CALLOUT_REGEX)
HeaderLines == {i \in 1..Len(pLines) : pLines[i].kind = "callout"}

\* C22: callouts never nest or overlap: a quoted line matching the header
\* grammar ends the open callout without joining its body and opens a new
\* one, a line that is neither quoted nor blank ends the open callout, so the
\* document has one record per header line and every body line belongs to at
\* most one record.
C22_NoNestingNoOverlap ==
    pDone =>
        /\ Len(pRecords) = Cardinality(HeaderLines)
        /\ \A r \in 1..Len(pRecords) :
              /\ pRecords[r].headerLine \in HeaderLines
              /\ \A k \in pRecords[r].body :
                    pLines[k].kind \in {"quote", "id", "blank"}
        /\ \A r, q \in 1..Len(pRecords) :
              r # q => /\ pRecords[r].headerLine # pRecords[q].headerLine
                       /\ pRecords[r].body \cap pRecords[q].body = {}

\* C22 witness: a parsed document in which a callout with a body line is
\* followed at once by a second callout with a body line
C22_Witness ==
    /\ pDone
    /\ Len(pLines) = 4
    /\ pLines[1].kind = "callout" /\ pLines[2].kind = "quote"
    /\ pLines[3].kind = "callout" /\ pLines[4].kind = "id"
    /\ Len(pRecords) = 2
    /\ pRecords[1].body = {2} /\ pRecords[2].body = {4}

\* C20: in every record the heading path's levels are strictly increasing, so
\* each level occurs at most once.
C20_HeadingLevelsIncrease ==
    \A r \in 1..Len(pRecords) :
        LET levels == pRecords[r].headerLevels
        IN \A a, b \in 1..Len(levels) : a < b => levels[a] < levels[b]

\* C20 witness: a callout preceded by a heading, a shallower heading and a
\* deeper one: the first heading was popped and two levels remain.
C20_Witness ==
    /\ pDone
    /\ Len(pLines) >= 4
    /\ pLines[1].kind = "heading" /\ pLines[2].kind = "heading"
    /\ pLines[3].kind = "heading"
    /\ pLines[2].level < pLines[1].level /\ pLines[2].level < pLines[3].level
    /\ \E r \in 1..Len(pRecords) : Len(pRecords[r].headerLevels) = 2

(***************************************************************************)
(* loadCalloutCache on one cache file (cache.ts lines 21-98).  A step of   *)
(* the function either goes on, returns, or throws; "throw" is what the    *)
(* enclosing try block sees.                                               *)
(***************************************************************************)
CacheFiles ==
    [exists : BOOLEAN,
     readFails : BOOLEAN,                        \* adapter.read rejects
     json : {"malformed", "notObject", "object"},
     callouts : {"absent", "notArray", "array", "arrayWithNull"},
     version : {"current", "other"},
     vaultPath : {"this", "other"}]

\* lines 41-49: JSON.parse and the structure check, with their catch
ParseCache(file) ==
    LET thrown == \/ file.json = "malformed"
                  \/ file.json = "notObject"
                  \/ file.callouts \in {"absent", "notArray"}
    IN IF thrown THEN "null" ELSE "continue"

\* lines 69-81: the conversion loop reads a field of every callout
ConvertCallouts(file) ==
    IF file.callouts = "arrayWithNull" THEN "throw" ELSE "continue"

\* lines 28-93: the body of the outer try block
LoadBody(file) ==
    IF ~file.exists THEN "null"
    ELSE IF file.readFails THEN "throw"
    ELSE IF ParseCache(file) # "continue" THEN ParseCache(file)
    ELSE IF ConvertCallouts(file) # "continue" THEN ConvertCallouts(file)
    ELSE IF file.version # "current" THEN "null"
    ELSE IF file.vaultPath # "this" THEN "null"
    ELSE "cache"

\* mutant of loadCalloutCache: no outer catch, a throw reaches the caller
loadCalloutCache_NoCatch(file) ==
    IF LoadBody(file) = "throw" THEN "raised" ELSE LoadBody(file)

\* lines 27, 94-97: the outer try/catch returns null on any throw
loadCalloutCache(file) ==
    IF LoadBody(file) = "throw" THEN "null" ELSE LoadBody(file)

LoadInit ==
    /\ lFile \in CacheFiles
    /\ lResult = "none"
    /\ CacheIdle
    /\ IdIdle
    /\ GraphIdle
    /\ ParserIdle
    /\ ScanIdle
    /\ ViewIdle
    /\ EdgeIdle

LoadCall ==
    /\ lResult = "none"
    /\ lResult' = loadCalloutCache(lFile)
    /\ UNCHANGED <<lFile, cvVars, engineVars, idVars, graphVars, parserVars,
                   scanVars, viewVars, edgeVars>>

LoadNext == LoadCall

SpecLoad == LoadInit /\ [][LoadNext]_vars

\* the cache file is unusable: missing, not well-formed JSON, without a
\* callouts list, of another schema version or of another vault
Unusable(file) ==
    \/ ~file.exists
    \/ file.json # "object"
    \/ file.callouts \in {"absent", "notArray"}
    \/ file.version # "current"
    \/ file.vaultPath # "this"

\* C14: loadCalloutCache never raises; it returns null when the cache file is
\* missing, malformed, without a callouts list, of another schema version or
\* of another vault, and returns a cache only when none of these holds.
C14_LoadNeverRaises ==
    lResult # "none" =>
        /\ lResult \in {"null", "cache"}
        /\ Unusable(lFile) => lResult = "null"
        /\ lResult = "cache" => ~Unusable(lFile)

\* C14 witness: a readable, well-formed cache of another schema version was
\* loaded and gave null
C14_Witness ==
    /\ lResult = "null"
    /\ lFile.exists /\ ~lFile.readFails /\ lFile.json = "object"
    /\ lFile.callouts = "array" /\ lFile.vaultPath = "this"
    /\ lFile.version = "other"

(***************************************************************************)
(* Re-parsing one document that holds one callout, with or without a block *)
(* id.  A parse is given no cache (extractCurrentFileCallouts, or no cache *)
(* file), a cache without a record of the callout, or the records of the   *)
(* first parse.                                                            *)
(***************************************************************************)
Modes == {"noCache", "otherCache", "prior"}

\* the existing cache a parse is given
ExistingCache(mode) ==
    CASE mode = "noCache" -> NoCache
      [] mode = "otherCache" -> [present |-> TRUE, callouts |-> << >>, fileModTimes |-> << >>]
      [] mode = "prior" -> [present |-> TRUE, callouts |-> <<tParses[1].record>>,
                            fileModTimes |-> << >>]

\* callout-parser.ts lines 162-218: the record of the document's callout
ParsedRecord(doc, existingCache, currentTime) ==
    IF doc.hasID
    THEN extractCalloutsFromFile(1, <<doc>>, existingCache, currentTime)[1]
    ELSE [file |-> 1, calloutID |-> 0, body |-> doc.body,
          fileModTime |-> timestampToReadable(doc.mtime),
          calloutCreatedTime |-> timestampToReadable(doc.mtime),
          calloutModifyTime |-> timestampToReadable(doc.mtime)]

TimesInit ==
    /\ tDoc \in [exists : {TRUE}, mtime : {MsPerSecond}, body : {0}, hasID : BOOLEAN]
    /\ tNow = MsPerSecond
    /\ tParses = << >>
    /\ pLines = << >> /\ pRecords = << >> /\ pDone = FALSE
    /\ CacheIdle
    /\ IdIdle
    /\ GraphIdle
    /\ LoadIdle
    /\ ScanIdle
    /\ ViewIdle
    /\ EdgeIdle

TimesTick ==
    /\ tNow < MsPerSecond + MaxClock * TickMs
    /\ tNow' = tNow + TickMs
    /\ UNCHANGED <<tDoc, tParses, pLines, pRecords, pDone, cvVars, engineVars, idVars,
                   graphVars, loadVars,
                   scanVars, viewVars, edgeVars>>

\* the user edits the callout's type, title or content, later than the
\* document was last written
TimesEdit ==
    /\ Len(tParses) < 2
    /\ tNow > tDoc.mtime
    /\ tDoc' = [tDoc EXCEPT !.body = 1 - @, !.mtime = tNow]
    /\ UNCHANGED <<tNow, tParses, pLines, pRecords, pDone, cvVars, engineVars, idVars,
                   graphVars, loadVars,
                   scanVars, viewVars, edgeVars>>

\* extractCalloutsFromFile(file, existingCache)
TimesParse(mode) ==
    /\ Len(tParses) < 2
    /\ mode = "prior" => Len(tParses) = 1
    /\ tParses' = Append(tParses,
                     [mode |-> mode, mtime |-> tDoc.mtime,
                      record |-> ParsedRecord(tDoc, ExistingCache(mode), tNow)])
    /\ UNCHANGED <<tDoc, tNow, pLines, pRecords, pDone, cvVars, engineVars, idVars,
                   graphVars, loadVars,
                   scanVars, viewVars, edgeVars>>

TimesNext ==
    \/ TimesTick
    \/ TimesEdit
    \/ \E mode \in Modes : TimesParse(mode)

SpecTimes == TimesInit /\ [][TimesNext]_vars

\* C15: a callout with an id parsed twice, the second time with the first
\* parse's records as prior cache: if its type, title or content differs, the
\* second calloutModifyTime is strictly later and calloutCreatedTime is
\* equal; if none differs, both times are equal.
C15_ModifyTimeAdvances ==
    (/\ Len(tParses) = 2
     /\ tDoc.hasID
     /\ tParses[2].mode = "prior") =>
        LET first == tParses[1].record
            second == tParses[2].record
        IN /\ second.calloutCreatedTime = first.calloutCreatedTime
           /\ IF second.body # first.body
              THEN second.calloutModifyTime > first.calloutModifyTime
              ELSE second.calloutModifyTime = first.calloutModifyTime

\* C16: parsing a document and re-parsing it unchanged (same text, same
\* modification time) yields records with identical id, calloutCreatedTime
\* and calloutModifyTime, for a callout with or without an id.
C16_ReparseIdempotent ==
    (/\ Len(tParses) = 2
     /\ tParses[2].record.body = tParses[1].record.body
     /\ tParses[2].mtime = tParses[1].mtime) =>
        /\ tParses[2].record.calloutID = tParses[1].record.calloutID
        /\ tParses[2].record.calloutCreatedTime = tParses[1].record.calloutCreatedTime
        /\ tParses[2].record.calloutModifyTime = tParses[1].record.calloutModifyTime

(***************************************************************************)
(* The layout of createCalloutGraphCanvas (canvas-handler.ts lines         *)
(* 164-360).  A canvas node is the rectangle with top-left corner (x, y).  *)
(* A saved width or height of 0 stands for an absent canvasWidth or        *)
(* canvasHeight.  Positions are computed doubled, so that the halves of    *)
(* (index - (total - 1) / 2) are integers, and then rounded.               *)
(***************************************************************************)
DefaultMainWidth == 400
DefaultMainHeight == 200
NodeSpacing == 280
MinLevelSpacing == 600
LevelMargin == 200
BidirectionalSpacing == 150
BidirectionalOffset == 250

Max(a, b) == IF a >= b THEN a ELSE b

\* Math.round of the number whose double is d
RoundHalf(d) == (d + 1) \div 2

\* lines 166-167
mainNodeWidth(saved) == IF saved # 0 THEN saved ELSE DefaultMainWidth
mainNodeHeight(saved) == IF saved # 0 THEN saved ELSE DefaultMainHeight

\* line 284
levelSpacing(width) == Max(MinLevelSpacing, width + LevelMargin)

\* lines 340-344, for the neighbours' level 1
nodeWidth(saved) == IF saved # 0 THEN saved ELSE Max(300, 400 - 1 * 25)
nodeHeight(saved) == IF saved # 0 THEN saved ELSE Max(120, 200 - 1 * 20)

\* lines 288-301 and 304-317: a column of inlinks or outlinks
ColumnNode(side, x, index, total, in) ==
    [side |-> side, index |-> index,
     x |-> x,
     y |-> RoundHalf((2 * index - (total - 1)) * NodeSpacing),
     width |-> nodeWidth(in.neighbourWidth),
     height |-> nodeHeight(in.neighbourHeight)]

\* lines 320-334: the bidirectional neighbours, alternating by index
BidirectionalNode(index, total, in) ==
    [side |-> "bidirectional", index |-> index,
     x |-> 0,
     y |-> RoundHalf((2 * index - (total - 1)) * BidirectionalSpacing
                     + 2 * (IF index % 2 = 0 THEN 0 - BidirectionalOffset
                                             ELSE BidirectionalOffset)),
     width |-> nodeWidth(in.neighbourWidth),
     height |-> nodeHeight(in.neighbourHeight)]

\* lines 164-184, 279-360: the focal node and the neighbours placed
LayoutOf(in) ==
    LET width == mainNodeWidth(in.width)
    IN [main |-> [x |-> 0, y |-> 0, width |-> width,
                  height |-> mainNodeHeight(in.height)],
        nodes |-> {ColumnNode("left", 0 - levelSpacing(width), i, in.nIn, in) :
                        i \in 0..(in.nIn - 1)}
                  \cup {ColumnNode("right", levelSpacing(width), i, in.nOut, in) :
                        i \in 0..(in.nOut - 1)}
                  \cup {BidirectionalNode(i, in.nBi, in) : i \in 0..(in.nBi - 1)}]

\* saved node sizes: absent, or as left by the user
SavedWidths == {0, 2 * DefaultMainWidth}
SavedHeights == {0, 2 * DefaultMainHeight}

LayoutInit ==
    /\ layIn \in [width : SavedWidths, height : SavedHeights,
                  neighbourWidth : SavedWidths, neighbourHeight : SavedHeights,
                  nIn : 0..MaxNeighbours, nOut : 0..MaxNeighbours,
                  nBi : 0..MaxNeighbours]
    /\ layOut = << >>
    /\ gOutlinks = {} /\ gCanvasFiles = << >> /\ gLast = 0
    /\ CacheIdle
    /\ IdIdle
    /\ ParserIdle
    /\ LoadIdle
    /\ ScanIdle
    /\ ViewIdle
    /\ EdgeIdle

\* createCalloutGraphCanvas lays the nodes out
LayoutCompute ==
    /\ layOut = << >>
    /\ layOut' = LayoutOf(layIn)
    /\ UNCHANGED <<layIn, gOutlinks, gCanvasFiles, gLast, cvVars, engineVars, idVars,
                   parserVars, loadVars,
                   scanVars, viewVars, edgeVars>>

LayoutNext == LayoutCompute

SpecLayout == LayoutInit /\ [][LayoutNext]_vars

\* two rectangles share interior points
Intersects(a, b) ==
    /\ a.x < b.x + b.width /\ b.x < a.x + a.width
    /\ a.y < b.y + b.height /\ b.y < a.y + a.height

\* C17: in the computed layout no neighbour's rectangle intersects the focal
\* node's rectangle at the origin, for every focal width and height and every
\* number of inbound, outbound and bidirectional neighbours.
C17_NoOverlapWithFocal ==
    layOut # << >> =>
        \A node \in layOut.nodes : ~Intersects(node, layOut.main)

\* C18: bidirectional nodes are placed at x = 0 and alternate by index: even
\* index above the focal node's row (y < 0), odd index below it (y > 0).
C18_BidirectionalAlternate ==
    layOut # << >> =>
        \A node \in layOut.nodes :
            node.side = "bidirectional" =>
                /\ node.x = 0
                /\ node.index % 2 = 0 => node.y < 0
                /\ node.index % 2 = 1 => node.y > 0

(***************************************************************************)
(* The regex-scan loops over one document's text: the callout type scan of *)
(* getAllCalloutTypesInVault (color-manager.ts, and the older one of       *)
(* main.ts) and the outlink scan of extractOutlinksFromContent.  A         *)
(* document is the number of matches its text holds; neither pattern       *)
(* matches the empty string.  `iterations` counts the runs of the loop     *)
(* body, `collected` the matches the loop has kept.                        *)
(***************************************************************************)
MAX_ITERATIONS == 1000
MaxFew == 2                      \* small documents hold 0..MaxFew matches
MaxOverCap == 2                  \* large documents hold up to the cap plus this
MatchCounts == (0..MaxFew) \cup ((MAX_ITERATIONS - 1)..(MAX_ITERATIONS + MaxOverCap))

Loops == {"types", "typesMonolith", "outlinks"}

ScanInit ==
    /\ sScan \in [loop : Loops, left : MatchCounts, iterations : {0},
                  collected : {0}, done : {FALSE}]
    /\ CacheIdle
    /\ IdIdle
    /\ GraphIdle
    /\ ParserIdle
    /\ LoadIdle
    /\ ViewIdle
    /\ EdgeIdle

\* `while ((match = regex.exec(content)) !== null) { ... }`: the body runs
\* once for every match of the text
UncappedStep(scan) ==
    IF scan.left > 0
    THEN [scan EXCEPT !.left = @ - 1, !.iterations = @ + 1, !.collected = @ + 1]
    ELSE [scan EXCEPT !.done = TRUE]

\* `while ((match = regex.exec(content)) !== null && iterations <
\* MAX_ITERATIONS) { ...; iterations++ }`
CappedStep(scan) ==
    IF scan.left > 0
    THEN IF scan.iterations < MAX_ITERATIONS
         THEN [scan EXCEPT !.left = @ - 1, !.iterations = @ + 1, !.collected = @ + 1]
         ELSE [scan EXCEPT !.left = @ - 1, !.done = TRUE]
    ELSE [scan EXCEPT !.done = TRUE]

\* color-manager.ts getAllCalloutTypesInVault, the loop over one document
TypeScanStep ==
    /\ sScan.loop = "types" /\ ~sScan.done
    /\ sScan' = UncappedStep(sScan)
    /\ UNCHANGED <<cvVars, engineVars, idVars, graphVars, parserVars, loadVars,
                   viewVars, edgeVars>>

\* main.ts getAllCalloutTypesInVault, the loop over one document
MonolithTypeScanStep ==
    /\ sScan.loop = "typesMonolith" /\ ~sScan.done
    /\ sScan' = CappedStep(sScan)
    /\ UNCHANGED <<cvVars, engineVars, idVars, graphVars, parserVars, loadVars,
                   viewVars, edgeVars>>

\* callout-parser.ts extractOutlinksFromContent, the loop over one callout's
\* content
OutlinkScanStep ==
    /\ sScan.loop = "outlinks" /\ ~sScan.done
    /\ sScan' = UncappedStep(sScan)
    /\ UNCHANGED <<cvVars, engineVars, idVars, graphVars, parserVars, loadVars,
                   viewVars, edgeVars>>

ScanNext ==
    \/ TypeScanStep
    \/ MonolithTypeScanStep
    \/ OutlinkScanStep

SpecScan == ScanInit /\ [][ScanNext]_vars

\* C23: every regex-scan loop over one document's text (the type scan and
\* the outlink scan) stops after at most a fixed cap of iterations, and on
\* reaching the cap keeps the matches it has collected.
C23_ScanLoopsCapped ==
    /\ sScan.iterations <= MAX_ITERATIONS
    /\ (sScan.done /\ sScan.iterations = MAX_ITERATIONS)
          => sScan.collected = MAX_ITERATIONS

(***************************************************************************)
(* The view's drag handler and the cache it saves (utils.ts).  Every       *)
(* document holds one callout.  this.callouts is the set of documents      *)
(* whose records the view holds, withId the documents whose record has a   *)
(* calloutID (none at first), wCache the documents whose records are in    *)
(* the persisted cache.                                                    *)
(***************************************************************************)
NViewDocs == 3                   \* documents of the drag handler model
ViewDoc == 1..NViewDocs

\* refreshCallouts lines 133-144: the records of the active document in
\* current-file mode, the records of the cache in search mode
refreshCallouts(mode, active, cache) ==
    IF mode = "current" THEN {active} ELSE cache

ViewInit ==
    /\ wCache = ViewDoc
    /\ \E mode \in {"current", "search"}, active \in ViewDoc :
         wView = [searchMode |-> mode, active |-> active,
                  callouts |-> refreshCallouts(mode, active, ViewDoc),
                  withId |-> {}, pc |-> "idle", dragged |-> 0, saving |-> {}]
    /\ CacheIdle
    /\ IdIdle
    /\ GraphIdle
    /\ ParserIdle
    /\ LoadIdle
    /\ ScanIdle
    /\ EdgeIdle

\* the user opens another document
ViewOpenFile(d) ==
    /\ d # wView.active
    /\ wView' = [wView EXCEPT !.active = d]
    /\ UNCHANGED <<wCache, cvVars, engineVars, idVars, graphVars, parserVars,
                   loadVars, scanVars, edgeVars>>

\* the mode toggle button, lines 169-192
ViewToggleMode ==
    /\ LET mode == IF wView.searchMode = "current" THEN "search" ELSE "current"
       IN wView' = [wView EXCEPT !.searchMode = mode,
                       !.callouts = refreshCallouts(mode, wView.active, wCache)]
    /\ UNCHANGED <<wCache, cvVars, engineVars, idVars, graphVars, parserVars,
                   loadVars, scanVars, edgeVars>>

\* the refresh button, lines 221-240: refreshAllCallouts rescans the vault
\* and saves, then refreshCallouts
ViewRefreshButton ==
    /\ wView.pc = "idle"
    /\ wCache' = ViewDoc
    /\ wView' = [wView EXCEPT
                    !.callouts = refreshCallouts(wView.searchMode, wView.active, ViewDoc)]
    /\ wView' # wView \/ wCache' # wCache
    /\ UNCHANGED <<cvVars, engineVars, idVars, graphVars, parserVars,
                   loadVars, scanVars, edgeVars>>

\* ondragstart lines 483-491, for a record without an id: the id is
\* generated and put on the record
ViewDragStart(d) ==
    /\ wView.pc = "idle"
    /\ d \in wView.callouts /\ d \notin wView.withId
    /\ wView' = [wView EXCEPT !.withId = @ \cup {d}, !.pc = "dragging",
                               !.dragged = d]
    /\ UNCHANGED <<wCache, cvVars, engineVars, idVars, graphVars, parserVars,
                   loadVars, scanVars, edgeVars>>

\* ondragend lines 523-531: the timeout runs and awaits addCalloutIdToCallout
ViewDragEnd ==
    /\ wView.pc = "dragging"
    /\ wView' = [wView EXCEPT !.pc = "adding"]
    /\ UNCHANGED <<wCache, cvVars, engineVars, idVars, graphVars, parserVars,
                   loadVars, scanVars, edgeVars>>

\* line 534: addCalloutIdToCallout resolved; saveCalloutCache(this.callouts)
\* is called with the list the view holds now
ViewAddDone ==
    /\ wView.pc = "adding"
    /\ wView' = [wView EXCEPT !.pc = "saving", !.saving = wView.callouts]
    /\ UNCHANGED <<wCache, cvVars, engineVars, idVars, graphVars, parserVars,
                   loadVars, scanVars, edgeVars>>

\* cache.ts saveCalloutCache lines 114-146: the cache written holds the
\* callouts it was given
ViewSaveDone ==
    /\ wView.pc = "saving"
    /\ wCache' = wView.saving
    /\ wView' = [wView EXCEPT !.pc = "idle", !.dragged = 0, !.saving = {}]
    /\ UNCHANGED <<cvVars, engineVars, idVars, graphVars, parserVars,
                   loadVars, scanVars, edgeVars>>

ViewNext ==
    \/ ViewRefreshButton
    \/ \E d \in ViewDoc : ViewOpenFile(d)
    \/ ViewToggleMode
    \/ \E d \in ViewDoc : ViewDragStart(d)
    \/ ViewDragEnd
    \/ ViewAddDone
    \/ ViewSaveDone

SpecView == ViewInit /\ [][ViewNext]_vars

\* C24: saving the cache after a drag-triggered id assignment does not drop
\* other documents from the index: when the drag handler's saveCalloutCache
\* completes, the persisted cache still holds the records of every document
\* other than the dragged callout's that it held before, in current-file
\* mode as in search mode.
C24_DragSaveKeepsOthers ==
    [][(wView.pc = "saving" /\ wView'.pc = "idle") =>
           (wCache \ {wView.dragged}) \subseteq wCache']_vars

(***************************************************************************)
(* The graph builder on outlink lists (canvas-handler.ts                   *)
(* createCalloutGraphCanvas).  callout.outlinks is a list, one entry per   *)
(* link in the callout's content (extractOutlinksFromContent), so a target *)
(* can occur in it more than once.  Every callout has an id and stands for *)
(* its key "file:calloutID"; allCallouts lists the callouts in ascending   *)
(* order.                                                                  *)
(***************************************************************************)
NEdgeCallouts == 3               \* indexed callouts of the outlink list model
MaxOutlinks == 2                 \* links in one callout's content
EdgeCallout == 1..NEdgeCallouts

OutlinkLists == UNION {[1..n -> EdgeCallout] : n \in 0..MaxOutlinks}

\* `callout.outlinks.some(([f, cId]) => f === file && cId === calloutID)`
LinksTo(outlinks, a, b) == \E i \in 1..Len(outlinks[a]) : outlinks[a][i] = b

\* lines 223-250: one push per entry of the focal callout's outlinks
BidirectionalList(outlinks, focal) ==
    SelectSeq(outlinks[focal],
              LAMBDA b : b # focal /\ LinksTo(outlinks, b, focal))

DirectOutlinkList(outlinks, focal) ==
    SelectSeq(outlinks[focal],
              LAMBDA b : b # focal /\ ~LinksTo(outlinks, b, focal))

\* lines 253-275: one push per callout of allCallouts that links to the
\* focal callout and is not among the bidirectional ones
DirectInlinkList(outlinks, focal) ==
    SelectSeq(SeqOfSet(EdgeCallout),
              LAMBDA a : /\ LinksTo(outlinks, a, focal)
                         /\ a # focal
                         /\ a \notin SetOfSeq(BidirectionalList(outlinks, focal)))

\* the keys of a Map in insertion order: a key set again keeps its place
RECURSIVE MapKeys(_)
MapKeys(s) ==
    IF s = << >> THEN << >>
    ELSE LET init == MapKeys(SubSeq(s, 1, Len(s) - 1))
             last == s[Len(s)]
         IN IF last \in SetOfSeq(init) THEN init ELSE Append(init, last)

RECURSIVE EdgesBothWays(_, _)
EdgesBothWays(focal, list) ==
    IF list = << >> THEN << >>
    ELSE << <<focal, Head(list)>>, <<Head(list), focal>> >>
         \o EdgesBothWays(focal, Tail(list))

\* lines 169-184, 280-476: the main node, one node per key of layoutData
\* (lines 336-360), and one edge per entry of directInlinks and
\* directOutlinks and two per entry of bidirectionalLinks (lines 381-476)
CanvasFromLists(outlinks, focal) ==
    LET in == DirectInlinkList(outlinks, focal)
        out == DirectOutlinkList(outlinks, focal)
        bi == BidirectionalList(outlinks, focal)
    IN [focal |-> focal,
        nodes |-> <<focal>> \o MapKeys(in \o out \o bi),
        edges |-> [i \in 1..Len(in) |-> <<in[i], focal>>]
                  \o [i \in 1..Len(out) |-> <<focal, out[i]>>]
                  \o EdgesBothWays(focal, bi)]

EdgeInit ==
    /\ eOutlinks \in [EdgeCallout -> OutlinkLists]
    /\ eCanvas = << >>
    /\ CacheIdle
    /\ IdIdle
    /\ GraphIdle
    /\ ParserIdle
    /\ LoadIdle
    /\ ScanIdle
    /\ ViewIdle

\* createCalloutGraphCanvas(selectedCallout, getAllCallouts)
CreateGraphFromLists(focal) ==
    /\ eCanvas' = CanvasFromLists(eOutlinks, focal)
    /\ eCanvas' # eCanvas
    /\ UNCHANGED <<eOutlinks, cvVars, engineVars, idVars, graphVars, parserVars,
                   loadVars, scanVars, viewVars>>

EdgeNext == \E focal \in EdgeCallout : CreateGraphFromLists(focal)

SpecEdges == EdgeInit /\ [][EdgeNext]_vars

\* C30: the graph built for a focal callout holds exactly one node per
\* distinct (file, calloutID) and at most one edge per ordered pair of
\* nodes, also when the focal callout's outlinks name a target twice.
C30_OneNodeOneEdge ==
    eCanvas # << >> =>
        /\ \A i, j \in 1..Len(eCanvas.nodes) :
              i # j => eCanvas.nodes[i] # eCanvas.nodes[j]
        /\ \A i, j \in 1..Len(eCanvas.edges) :
              i # j => eCanvas.edges[i] # eCanvas.edges[j]

====
